---- MODULE Spec2Model ----
(***************************************************************************)
(* AsyncWebexTeamsAPI (src/webexteamssdk/aio/api/__init__.py): credential  *)
(* resolution, construction of the REST session and of the API wrappers,   *)
(* the read-only properties and the async context manager.                 *)
(***************************************************************************)
EXTENDS Integers, Sequences, FiniteSets, TLC

(***************************************************************************)
(* Python values.  Every value carries its type tag; str and int payloads  *)
(* live in separate fields so that values of different types compare.      *)
(***************************************************************************)
PyNone == [type |-> "NoneType", str |-> "", int |-> 0]
Str(s) == [type |-> "str", str |-> s, int |-> 0]
IntV(n) == [type |-> "int", str |-> "", int |-> n]
BoolV(b) == [type |-> "bool", str |-> "", int |-> IF b THEN 1 ELSE 0]
DictV(s) == [type |-> "dict", str |-> s, int |-> 0]

\* Python truth value: None, "", 0, False and {} are false.
Truthy(v) ==
    CASE v.type = "NoneType" -> FALSE
      [] v.type = "str" -> v.str # ""
      [] v.type = "dict" -> v.str # ""
      [] OTHER -> v.int # 0

\* isinstance(v, t); bool is a subclass of int.
IsInstance(v, t) ==
    \/ v.type = t
    \/ t = "int" /\ v.type = "bool"

\* webexteamssdk.utils.check_type(v, t, optional=True) returns normally.
check_type(v, t) == IsInstance(v, t) \/ v = PyNone

(***************************************************************************)
(* Bounds and input sets                                                   *)
(***************************************************************************)
\* How many scopes a facade is taken through (each ends with one close call).
MaxCloseCalls == 2

Facades == {"api1", "api2"}

DEFAULT_BASE_URL == Str("https://webexapis.com/v1/")
DEFAULT_SINGLE_REQUEST_TIMEOUT == IntV(60)
DEFAULT_WAIT_ON_RATE_LIMIT == BoolV(TRUE)

AccessTokenVals == {PyNone, Str(""), Str("tokA"), IntV(5)}
BaseUrlVals == {DEFAULT_BASE_URL, Str("https://proxy.example/v1/"), IntV(5)}
TimeoutVals == {DEFAULT_SINGLE_REQUEST_TIMEOUT, IntV(30), Str("60")}
WaitVals == {DEFAULT_WAIT_ON_RATE_LIMIT, BoolV(FALSE), Str("yes")}
ClientIdVals == {PyNone, Str(""), Str("cid"), IntV(5)}
ClientSecretVals == {PyNone, Str("secret"), IntV(5)}
OAuthCodeVals == {PyNone, Str("code"), IntV(5)}
RedirectUriVals == {PyNone, Str("https://redirect"), IntV(5)}
ProxiesVals == {PyNone, DictV("https->proxy"), Str("proxy")}
EnvVals == {PyNone, Str(""), Str("envTok")}
\* What the token endpoint's response carries in its access_token field.
OAuthResponses == {Str("oauthTok"), PyNone}

\* Every combination of constructor arguments, ill-typed ones included.
AllArgs ==
    [access_token : AccessTokenVals, base_url : BaseUrlVals,
     single_request_timeout : TimeoutVals, wait_on_rate_limit : WaitVals,
     client_id : ClientIdVals, client_secret : ClientSecretVals,
     oauth_code : OAuthCodeVals, redirect_uri : RedirectUriVals,
     proxies : ProxiesVals]

\* The constructor's defaults (every optional argument omitted).
DefaultArgs ==
    [access_token |-> PyNone, base_url |-> DEFAULT_BASE_URL,
     single_request_timeout |-> DEFAULT_SINGLE_REQUEST_TIMEOUT,
     wait_on_rate_limit |-> DEFAULT_WAIT_ON_RATE_LIMIT,
     client_id |-> PyNone, client_secret |-> PyNone, oauth_code |-> PyNone,
     redirect_uri |-> PyNone, proxies |-> PyNone]

\* Well-typed argument sets with different credentials and configurations.
CredentialArgs ==
    {[DefaultArgs EXCEPT !.access_token = Str("tokA")],
     [DefaultArgs EXCEPT !.access_token = Str("tokB"),
                         !.base_url = Str("https://proxy.example/v1/"),
                         !.single_request_timeout = IntV(30),
                         !.wait_on_rate_limit = BoolV(FALSE)],
     [DefaultArgs EXCEPT !.client_id = Str("cid"),
                         !.client_secret = Str("secret"),
                         !.oauth_code = Str("code"),
                         !.redirect_uri = Str("https://redirect")]}

SessionAccessors ==
    {"people", "rooms", "memberships", "messages", "teams",
     "team_memberships", "attachment_actions", "webhooks", "organizations",
     "licenses", "roles", "events", "guest_issuer"}

(***************************************************************************)
(* State                                                                   *)
(***************************************************************************)
VARIABLES
    WEBEX_TEAMS_ACCESS_TOKEN, \* the process environment's token (module level)
    status,      \* per facade: "new", "oauth" (exchange in flight), "ready", "failed"
    args,        \* per facade: the arguments __init__ was called with
    error,       \* per facade: the exception __init__ raised, or "none"
    trace,       \* per facade: the calls __init__ has made, in order
    oauthToken,  \* per facade: what access_tokens.get(...).access_token returned
    wrappers,    \* per facade: the API wrappers stored as attributes of self
    _session,    \* per facade: self._session, an index into sessions (0: unset)
    sessions,    \* every AsyncRestSession object created so far
    scope,       \* per facade: "outside" or "inside" an `async with` block
    entered,     \* per facade: what the last __aenter__ returned ("none" before)
    lastExit,    \* per facade: how the last scope was left: "none", "normal", "error"
    lastRead     \* per facade: <<>> or the values the properties last returned

vars ==
    <<WEBEX_TEAMS_ACCESS_TOKEN, status, args, error, trace, oauthToken,
      wrappers, _session, sessions, scope, entered, lastExit, lastRead>>

Init ==
    /\ WEBEX_TEAMS_ACCESS_TOKEN \in EnvVals
    /\ status = [f \in Facades |-> "new"]
    /\ args = [f \in Facades |-> DefaultArgs]
    /\ error = [f \in Facades |-> "none"]
    /\ trace = [f \in Facades |-> <<>>]
    /\ oauthToken = [f \in Facades |-> PyNone]
    /\ wrappers = [f \in Facades |-> {}]
    /\ _session = [f \in Facades |-> 0]
    /\ sessions = <<>>
    /\ scope = [f \in Facades |-> "outside"]
    /\ entered = [f \in Facades |-> "none"]
    /\ lastExit = [f \in Facades |-> "none"]
    /\ lastRead = [f \in Facades |-> <<>>]

(***************************************************************************)
(* Collaborators of __init__                                               *)
(***************************************************************************)
\* AsyncRestSession(access_token, base_url, single_request_timeout,
\* wait_on_rate_limit, proxies): a new, open session holding its configuration.
\* owner records which facade's constructor created it.
AsyncRestSession(owner, access_token, base_url, single_request_timeout, wait_on_rate_limit, proxies) ==
    [owner |-> owner, access_token |-> access_token, base_url |-> base_url,
     single_request_timeout |-> single_request_timeout,
     wait_on_rate_limit |-> wait_on_rate_limit, proxies |-> proxies,
     closed |-> FALSE, closeCalls |-> 0]

\* AsyncRestSession.close(): releases the connection pool.
close(s) == [s EXCEPT !.closed = TRUE, !.closeCalls = @ + 1]

\* An API wrapper stored under attribute `name`: the session it sends its
\* requests through (0: none of the facade's sessions) and, for a wrapper
\* built without a session, the base URL and timeout it was given.
Wrapper(name, sid, base_url, single_request_timeout) ==
    [name |-> name, session |-> sid, base_url |-> base_url,
     single_request_timeout |-> single_request_timeout]

(***************************************************************************)
(* AsyncWebexTeamsAPI.__init__                                             *)
(***************************************************************************)
\* A variant of TypesChecked that leaves out the check of proxies.
TypesCheckedButProxies(a) ==
    /\ check_type(a.access_token, "str")
    /\ check_type(a.base_url, "str")
    /\ check_type(a.single_request_timeout, "int")
    /\ check_type(a.wait_on_rate_limit, "bool")
    /\ check_type(a.client_id, "str")
    /\ check_type(a.client_secret, "str")
    /\ check_type(a.oauth_code, "str")
    /\ check_type(a.redirect_uri, "str")

\* Lines 130-138: the nine check_type calls all return normally.
TypesChecked(a) ==
    /\ check_type(a.access_token, "str")
    /\ check_type(a.base_url, "str")
    /\ check_type(a.single_request_timeout, "int")
    /\ check_type(a.wait_on_rate_limit, "bool")
    /\ check_type(a.client_id, "str")
    /\ check_type(a.client_secret, "str")
    /\ check_type(a.oauth_code, "str")
    /\ check_type(a.redirect_uri, "str")
    /\ check_type(a.proxies, "dict")

\* A variant of ResolveToken that prefers the environment's token.
ResolveTokenEnvFirst(access_token, env) ==
    IF Truthy(env) THEN env ELSE access_token

\* A variant of ResolveToken that tests `is None` instead of truth.
ResolveTokenIfNone(access_token, env) ==
    IF access_token = PyNone THEN env ELSE access_token

\* Line 140: access_token = access_token or WEBEX_TEAMS_ACCESS_TOKEN
ResolveToken(access_token, env) ==
    IF Truthy(access_token) THEN access_token ELSE env

\* Line 148: oauth_param_list
oauth_param_list(a) ==
    <<a.client_id, a.client_secret, a.oauth_code, a.redirect_uri>>

\* A variant of OAuthRequired with any() in place of all().
OAuthRequiredAny(access_token, a) ==
    /\ ~Truthy(access_token)
    /\ \E i \in 1..4 : Truthy(oauth_param_list(a)[i])

\* A variant of OAuthRequired that does not look at the token.
OAuthRequiredWithToken(access_token, a) ==
    \A i \in 1..4 : Truthy(oauth_param_list(a)[i])

\* Line 149: not access_token and all(oauth_param_list)
OAuthRequired(access_token, a) ==
    /\ ~Truthy(access_token)
    /\ \A i \in 1..4 : Truthy(oauth_param_list(a)[i])

\* Lines 143-145: the AccessTokensAPI wrapper, built from the base URL and the
\* timeout, before any session exists.
AccessTokensWrapper(a) ==
    Wrapper("access_tokens", 0, a.base_url, a.single_request_timeout)

\* A variant of SessionWrappers in which the first wrapper is built without
\* the session.
SessionWrappersButPeople(sid) ==
    {Wrapper(n, IF n = "people" THEN 0 ELSE sid, PyNone, PyNone) : n \in SessionAccessors}

\* Lines 179-193: the API wrappers built on self._session.
SessionWrappers(sid) ==
    {Wrapper(n, sid, PyNone, PyNone) : n \in SessionAccessors}

\* A variant of Finish that stores the session on the class, so that every
\* facade's _session names the session created last.
FinishOnClass(f, a, access_token) ==
    IF ~Truthy(access_token)
    THEN /\ status' = [status EXCEPT ![f] = "failed"]
         /\ error' = [error EXCEPT ![f] = "AccessTokenError"]
         /\ wrappers' = [wrappers EXCEPT ![f] = {AccessTokensWrapper(a)}]
         /\ UNCHANGED <<_session, sessions>>
    ELSE /\ status' = [status EXCEPT ![f] = "ready"]
         /\ error' = [error EXCEPT ![f] = "none"]
         /\ sessions' = Append(sessions,
                AsyncRestSession(f, access_token, a.base_url,
                    a.single_request_timeout, a.wait_on_rate_limit, a.proxies))
         /\ _session' = [g \in Facades |->
                IF g = f \/ status[g] = "ready" THEN Len(sessions) + 1 ELSE _session[g]]
         /\ wrappers' = [wrappers EXCEPT ![f] =
                {AccessTokensWrapper(a)} \cup SessionWrappers(Len(sessions) + 1)]

\* Lines 159-193: with the token settled, raise AccessTokenError or create the
\* session and the wrappers on it.
Finish(f, a, access_token) ==
    IF ~Truthy(access_token)
    THEN /\ status' = [status EXCEPT ![f] = "failed"]
         /\ error' = [error EXCEPT ![f] = "AccessTokenError"]
         /\ wrappers' = [wrappers EXCEPT ![f] = {AccessTokensWrapper(a)}]
         /\ UNCHANGED <<_session, sessions>>
    ELSE /\ status' = [status EXCEPT ![f] = "ready"]
         /\ error' = [error EXCEPT ![f] = "none"]
         /\ sessions' = Append(sessions,
                AsyncRestSession(f, access_token, a.base_url,
                    a.single_request_timeout, a.wait_on_rate_limit, a.proxies))
         /\ _session' = [_session EXCEPT ![f] = Len(sessions) + 1]
         /\ wrappers' = [wrappers EXCEPT ![f] =
                {AccessTokensWrapper(a)} \cup SessionWrappers(Len(sessions) + 1)]

\* What Finish appends to the trace.
FinishTrace(access_token) ==
    IF Truthy(access_token) THEN <<"AsyncRestSession", "wrappers">> ELSE <<>>

\* __init__(self, **a), up to its return, its raise, or the token request it
\* sends through self.access_tokens.
__init__(f, a) ==
    /\ status[f] = "new"
    /\ args' = [args EXCEPT ![f] = a]
    /\ UNCHANGED <<WEBEX_TEAMS_ACCESS_TOKEN, oauthToken, scope, entered, lastExit, lastRead>>
    /\ IF ~TypesChecked(a)
       THEN /\ status' = [status EXCEPT ![f] = "failed"]
            /\ error' = [error EXCEPT ![f] = "TypeError"]
            /\ UNCHANGED <<trace, wrappers, _session, sessions>>
       ELSE LET access_token == ResolveToken(a.access_token, WEBEX_TEAMS_ACCESS_TOKEN) IN
            IF OAuthRequired(access_token, a)
            THEN /\ status' = [status EXCEPT ![f] = "oauth"]
                 /\ wrappers' = [wrappers EXCEPT ![f] = {AccessTokensWrapper(a)}]
                 /\ trace' = [trace EXCEPT ![f] =
                        <<"AsyncAccessTokensAPI", "access_tokens.get">>]
                 /\ UNCHANGED <<error, _session, sessions>>
            ELSE /\ trace' = [trace EXCEPT ![f] =
                        <<"AsyncAccessTokensAPI">> \o FinishTrace(access_token)]
                 /\ Finish(f, a, access_token)

\* Lines 150-155 onwards: the token request returns a response whose
\* access_token field holds `token`; __init__ runs to its end.
OAuthReturn(f, token) ==
    /\ status[f] = "oauth"
    /\ oauthToken' = [oauthToken EXCEPT ![f] = token]
    /\ trace' = [trace EXCEPT ![f] = @ \o <<"token returned">> \o FinishTrace(token)]
    /\ Finish(f, args[f], token)
    /\ UNCHANGED <<WEBEX_TEAMS_ACCESS_TOKEN, args, scope, entered, lastExit, lastRead>>

\* Lines 150-155: the token request fails; its error leaves __init__.
OAuthRaise(f) ==
    /\ status[f] = "oauth"
    /\ status' = [status EXCEPT ![f] = "failed"]
    /\ error' = [error EXCEPT ![f] = "ApiError"]
    /\ trace' = [trace EXCEPT ![f] = @ \o <<"token request failed">>]
    /\ UNCHANGED <<WEBEX_TEAMS_ACCESS_TOKEN, args, oauthToken, wrappers, _session,
                   sessions, scope, entered, lastExit, lastRead>>

(***************************************************************************)
(* Properties (lines 195-213)                                              *)
(***************************************************************************)
access_token(f) == sessions[_session[f]].access_token
\* A variant of base_url that returns the configured default.
base_url_default(f) == DEFAULT_BASE_URL

base_url(f) == sessions[_session[f]].base_url
single_request_timeout(f) == sessions[_session[f]].single_request_timeout
wait_on_rate_limit(f) == sessions[_session[f]].wait_on_rate_limit

\* A caller reads the four properties.
ReadProperties(f) ==
    /\ status[f] = "ready"
    /\ lastRead' = [lastRead EXCEPT ![f] =
            <<[access_token |-> access_token(f), base_url |-> base_url(f),
               single_request_timeout |-> single_request_timeout(f),
               wait_on_rate_limit |-> wait_on_rate_limit(f)]>>]
    /\ UNCHANGED <<WEBEX_TEAMS_ACCESS_TOKEN, status, args, error, trace, oauthToken,
                   wrappers, _session, sessions, scope, entered, lastExit>>

(***************************************************************************)
(* Async context manager (lines 215-219)                                   *)
(***************************************************************************)
\* A variant of __aenter__ that reopens the session.
aenter_reopening(f) ==
    /\ status[f] = "ready"
    /\ scope[f] = "outside"
    /\ sessions[_session[f]].closeCalls < MaxCloseCalls
    /\ scope' = [scope EXCEPT ![f] = "inside"]
    /\ entered' = [entered EXCEPT ![f] = f]
    /\ sessions' = [sessions EXCEPT ![_session[f]].closed = FALSE]
    /\ UNCHANGED <<WEBEX_TEAMS_ACCESS_TOKEN, status, args, error, trace, oauthToken,
                   wrappers, _session, lastExit, lastRead>>

\* async def __aenter__(self): return self
__aenter__(f) ==
    /\ status[f] = "ready"
    /\ scope[f] = "outside"
    /\ sessions[_session[f]].closeCalls < MaxCloseCalls
    /\ scope' = [scope EXCEPT ![f] = "inside"]
    /\ entered' = [entered EXCEPT ![f] = f]
    /\ UNCHANGED <<WEBEX_TEAMS_ACCESS_TOKEN, status, args, error, trace, oauthToken,
                   wrappers, _session, sessions, lastExit, lastRead>>

\* A variant of __aexit__ that closes the session only after a normal end.
aexit_unless_error(f, exc_type) ==
    /\ status[f] = "ready"
    /\ scope[f] = "inside"
    /\ sessions' = IF exc_type = "None"
                   THEN [sessions EXCEPT ![_session[f]] = close(@)]
                   ELSE sessions
    /\ scope' = [scope EXCEPT ![f] = "outside"]
    /\ lastExit' = [lastExit EXCEPT ![f] =
            IF exc_type = "None" THEN "normal" ELSE "error"]
    /\ UNCHANGED <<WEBEX_TEAMS_ACCESS_TOKEN, status, args, error, trace, oauthToken,
                   wrappers, _session, entered, lastRead>>

\* async def __aexit__(self, exc_type, exc, tb): await self._session.close()
\* exc_type is "None" when the block ended normally, else the error's type.
__aexit__(f, exc_type) ==
    /\ status[f] = "ready"
    /\ scope[f] = "inside"
    /\ sessions' = [sessions EXCEPT ![_session[f]] = close(@)]
    /\ scope' = [scope EXCEPT ![f] = "outside"]
    /\ lastExit' = [lastExit EXCEPT ![f] =
            IF exc_type = "None" THEN "normal" ELSE "error"]
    /\ UNCHANGED <<WEBEX_TEAMS_ACCESS_TOKEN, status, args, error, trace, oauthToken,
                   wrappers, _session, entered, lastRead>>

(***************************************************************************)
(* Specifications                                                          *)
(***************************************************************************)
\* A caller constructs facade f with some arguments of ArgSet.
Construct(f, ArgSet) ==
    /\ status[f] = "new"
    /\ \E a \in ArgSet : __init__(f, a)

\* One step of facade f or of a caller of it.
FacadeStep(f, ArgSet) ==
    \/ Construct(f, ArgSet)
    \/ \E t \in OAuthResponses : OAuthReturn(f, t)
    \/ OAuthRaise(f)
    \/ ReadProperties(f)
    \/ __aenter__(f)
    \/ \E e \in {"None", "Exception"} : __aexit__(f, e)

\* Several facades built from well-typed arguments with different credentials.
Next == \E f \in Facades : FacadeStep(f, CredentialArgs)

Spec == Init /\ [][Next]_vars

\* One facade built from every combination of arguments.
NextAnyArgs == FacadeStep("api1", AllArgs)

SpecAnyArgs == Init /\ [][NextAnyArgs]_vars

(***************************************************************************)
(* Vocabulary of the properties                                            *)
(***************************************************************************)
Env == WEBEX_TEAMS_ACCESS_TOKEN

\* The sessions facade f's constructor created.
OwnedSessions(f) == {i \in 1..Len(sessions) : sessions[i].owner = f}

\* How often x occurs in sequence q, and whether x occurs before y.
Count(q, x) == Cardinality({i \in 1..Len(q) : q[i] = x})
Before(q, x, y) ==
    \E i, j \in 1..Len(q) : i < j /\ q[i] = x /\ q[j] = y

\* The token requests facade f's constructor has sent.
Exchanges(f) == Count(trace[f], "access_tokens.get")

\* The declared type of each type-checked parameter.
DeclaredType ==
    [access_token |-> "str", base_url |-> "str",
     single_request_timeout |-> "int", wait_on_rate_limit |-> "bool",
     client_id |-> "str", client_secret |-> "str", oauth_code |-> "str",
     redirect_uri |-> "str", proxies |-> "dict"]

\* Some parameter has a value that is neither None nor of its declared type.
IllTyped(a) ==
    \E p \in DOMAIN DeclaredType :
        a[p].type \notin {"NoneType", DeclaredType[p]}

\* All four OAuth parameters are supplied (non-empty).
AllFourOAuth(a) ==
    /\ Truthy(a.client_id)
    /\ Truthy(a.client_secret)
    /\ Truthy(a.oauth_code)
    /\ Truthy(a.redirect_uri)

\* The token of facade f's session.
SessionToken(f) == sessions[_session[f]].access_token

\* Everything that belongs to facade f: its attributes, its callers' view of
\* it, and the sessions it points to or created.
FacadeState(f) ==
    <<status[f], args[f], error[f], trace[f], oauthToken[f], wrappers[f],
      _session[f], scope[f], entered[f], lastExit[f], lastRead[f],
      IF _session[f] = 0 THEN <<>> ELSE <<sessions[_session[f]]>>,
      {sessions[i] : i \in OwnedSessions(f)}>>

(***************************************************************************)
(* C1: the token handed to the Session is the explicit token if one is     *)
(* supplied, else the environment's token if there is one, else the token  *)
(* the OAuth exchange returned, all four OAuth parameters being supplied;  *)
(* exactly one source is used, never a lower one when a higher one exists. *)
(* (Supplied means non-empty: see C9.)                                     *)
(***************************************************************************)
C1_TokenPriority ==
    \A f \in Facades : status[f] = "ready" =>
        LET a == args[f] IN
        /\ Truthy(a.access_token) =>
               SessionToken(f) = a.access_token /\ Exchanges(f) = 0
        /\ ~Truthy(a.access_token) /\ Truthy(Env) =>
               SessionToken(f) = Env /\ Exchanges(f) = 0
        /\ ~Truthy(a.access_token) /\ ~Truthy(Env) =>
               /\ AllFourOAuth(a)
               /\ Exchanges(f) = 1
               /\ SessionToken(f) = oauthToken[f]
        /\ Cardinality({src \in {"explicit", "env", "oauth"} :
               /\ src = "explicit" => Truthy(a.access_token)
                                      /\ SessionToken(f) = a.access_token
               /\ src = "env" => Truthy(Env) /\ SessionToken(f) = Env
               /\ src = "oauth" => Exchanges(f) = 1
                                   /\ SessionToken(f) = oauthToken[f]}) = 1

\* Explicit and environment tokens and all four OAuth parameters are there:
\* the explicit token is used and no exchange is made.
C1_Witness ==
    /\ status["api1"] = "ready"
    /\ args["api1"].access_token = Str("tokA")
    /\ Env = Str("envTok")
    /\ AllFourOAuth(args["api1"])
    /\ SessionToken("api1") = Str("tokA")

(***************************************************************************)
(* C2: constructing with well-typed arguments, no explicit token, no       *)
(* environment token and an incomplete OAuth parameter set fails with      *)
(* AccessTokenError before any network call; no Session is created and no  *)
(* wrapper bound to a Session exists.                                      *)
(***************************************************************************)
C2_NoCredentialFails ==
    \A f \in Facades :
        LET a == args[f] IN
        (/\ status[f] # "new"
         /\ ~IllTyped(a)
         /\ ~Truthy(a.access_token)
         /\ ~Truthy(Env)
         /\ ~AllFourOAuth(a)) =>
            /\ status[f] = "failed"
            /\ error[f] = "AccessTokenError"
            /\ Exchanges(f) = 0
            /\ trace[f] = <<"AsyncAccessTokensAPI">>
            /\ _session[f] = 0
            /\ OwnedSessions(f) = {}
            /\ \A w \in wrappers[f] : w.session = 0 /\ w.name \notin SessionAccessors

\* Three of the four OAuth parameters and nothing else: AccessTokenError.
C2_Witness ==
    /\ status["api1"] = "failed"
    /\ error["api1"] = "AccessTokenError"
    /\ args["api1"].access_token = PyNone
    /\ Env = PyNone
    /\ Truthy(args["api1"].client_secret)
    /\ Truthy(args["api1"].oauth_code)
    /\ Truthy(args["api1"].redirect_uri)
    /\ ~Truthy(args["api1"].client_id)

(***************************************************************************)
(* C6: the OAuth exchange is made at most once per construction, only when *)
(* neither an explicit nor an environment token is available and all four  *)
(* OAuth parameters are supplied, through the access_tokens wrapper built  *)
(* without a session, and the Session is created only after the exchange   *)
(* has returned a token.                                                   *)
(***************************************************************************)
C6_ExchangeOnceBeforeSession ==
    \A f \in Facades :
        LET a == args[f] IN
        /\ Exchanges(f) <= 1
        /\ Exchanges(f) = 1 =>
               /\ ~Truthy(a.access_token)
               /\ ~Truthy(Env)
               /\ AllFourOAuth(a)
               /\ Before(trace[f], "AsyncAccessTokensAPI", "access_tokens.get")
               /\ ~Before(trace[f], "AsyncRestSession", "access_tokens.get")
               /\ \E w \in wrappers[f] : w.name = "access_tokens" /\ w.session = 0
        /\ status[f] = "oauth" => _session[f] = 0 /\ OwnedSessions(f) = {}
        /\ (Exchanges(f) = 1 /\ OwnedSessions(f) # {}) =>
               /\ Before(trace[f], "token returned", "AsyncRestSession")
               /\ Truthy(oauthToken[f])
               /\ Count(trace[f], "AsyncRestSession") = 1

\* A construction that exchanged the OAuth code and then created its session.
C6_Witness ==
    /\ status["api1"] = "ready"
    /\ Exchanges("api1") = 1
    /\ SessionToken("api1") = Str("oauthTok")
    /\ OwnedSessions("api1") = {1}

(***************************************************************************)
(* C8: a type-checked parameter of the wrong type makes construction fail  *)
(* with TypeError before credential resolution, before the OAuth exchange  *)
(* or any network activity and before any wrapper or Session is created,   *)
(* whatever credentials are available.                                     *)
(***************************************************************************)
C8_TypeErrorFirst ==
    \A f \in Facades :
        (status[f] # "new" /\ IllTyped(args[f])) =>
            /\ status[f] = "failed"
            /\ error[f] = "TypeError"
            /\ trace[f] = <<>>
            /\ wrappers[f] = {}
            /\ _session[f] = 0
            /\ OwnedSessions(f) = {}

\* A valid explicit token, and proxies that is not a dict.
C8_Witness ==
    /\ status["api1"] = "failed"
    /\ error["api1"] = "TypeError"
    /\ args["api1"].access_token = Str("tokA")
    /\ args["api1"].proxies = Str("proxy")
    /\ \A p \in DOMAIN DeclaredType \ {"proxies"} :
           args["api1"][p].type = DeclaredType[p] \/ args["api1"][p] = PyNone

(***************************************************************************)
(* C9: an explicit access_token of "" is treated as no explicit token:     *)
(* the environment's token is used if there is one, else the OAuth         *)
(* exchange is made if its four parameters are supplied, else construction *)
(* fails with AccessTokenError; no Session ever holds an empty token.      *)
(***************************************************************************)
C9_EmptyTokenIsNoToken ==
    /\ \A i \in 1..Len(sessions) : Truthy(sessions[i].access_token)
    /\ \A f \in Facades :
        LET a == args[f] IN
        (status[f] # "new" /\ ~IllTyped(a) /\ a.access_token = Str("")) =>
            /\ Truthy(Env) =>
                   /\ status[f] = "ready"
                   /\ SessionToken(f) = Env
                   /\ Exchanges(f) = 0
            /\ (~Truthy(Env) /\ AllFourOAuth(a)) =>
                   /\ Exchanges(f) = 1
                   /\ status[f] = "ready" => SessionToken(f) = oauthToken[f]
                   /\ status[f] = "failed" => error[f] \in {"AccessTokenError", "ApiError"}
            /\ (~Truthy(Env) /\ ~AllFourOAuth(a)) =>
                   /\ status[f] = "failed"
                   /\ error[f] = "AccessTokenError"
                   /\ Exchanges(f) = 0

\* access_token="" with a token in the environment: the environment's is used.
C9_Witness ==
    /\ status["api1"] = "ready"
    /\ args["api1"].access_token = Str("")
    /\ Env = Str("envTok")
    /\ SessionToken("api1") = Str("envTok")

C4_ScopeExitCloses ==
    \A f \in Facades :
        /\ (entered[f] # "none" /\ scope[f] = "outside") =>
               /\ lastExit[f] \in {"normal", "error"}
               /\ sessions[_session[f]].closed
        /\ lastExit[f] # "none" =>
               /\ sessions[_session[f]].closed
               /\ sessions[_session[f]].closeCalls >= 1

\* The first scope of a facade was left by an error, and its session is closed.
C4_Witness ==
    /\ lastExit["api1"] = "error"
    /\ scope["api1"] = "outside"
    /\ sessions[_session["api1"]].closeCalls = 1
    /\ sessions[_session["api1"]].closed

(***************************************************************************)
(* C5: in every state after a successful construction, whatever was read,  *)
(* entered or left since, the properties access_token, base_url,           *)
(* single_request_timeout and wait_on_rate_limit return the Session's      *)
(* configuration, which is the token resolved at construction and the base *)
(* URL, timeout and rate-limit flag given to the constructor.              *)
(***************************************************************************)
C5_PropertiesMirrorSession ==
    \A f \in Facades : status[f] = "ready" =>
        LET a == args[f]
            s == sessions[_session[f]]
            resolved == IF Truthy(a.access_token) THEN a.access_token
                        ELSE IF Truthy(Env) THEN Env ELSE oauthToken[f]
            now == [access_token |-> access_token(f), base_url |-> base_url(f),
                    single_request_timeout |-> single_request_timeout(f),
                    wait_on_rate_limit |-> wait_on_rate_limit(f)]
        IN  /\ now = [access_token |-> s.access_token, base_url |-> s.base_url,
                      single_request_timeout |-> s.single_request_timeout,
                      wait_on_rate_limit |-> s.wait_on_rate_limit]
            /\ now = [access_token |-> resolved, base_url |-> a.base_url,
                      single_request_timeout |-> a.single_request_timeout,
                      wait_on_rate_limit |-> a.wait_on_rate_limit]
            /\ lastRead[f] # <<>> => lastRead[f] = <<now>>

\* The properties were read, a scope was entered and left, and they still
\* give the non-default configuration the constructor was called with.
C5_Witness ==
    /\ status["api1"] = "ready"
    /\ lastRead["api1"] # <<>>
    /\ lastExit["api1"] # "none"
    /\ sessions[_session["api1"]].closed
    /\ base_url("api1") = Str("https://proxy.example/v1/")
    /\ wait_on_rate_limit("api1") = BoolV(FALSE)
    /\ access_token("api1") = Str("oauthTok")

(***************************************************************************)
(* C7: facades are independent under every interleaving: a step of one     *)
(* facade (its construction, a property read, a scope entry or exit)       *)
(* changes nothing of another facade -- not its Session's token, base URL, *)
(* timeout, rate-limit flag or open/closed status, nor anything else of it *)
(* -- and no step writes the process-wide environment token.               *)
(***************************************************************************)
C7_FacadesIndependent ==
    [][/\ WEBEX_TEAMS_ACCESS_TOKEN' = WEBEX_TEAMS_ACCESS_TOKEN
       /\ \A f \in Facades : FacadeStep(f, CredentialArgs) =>
              \A g \in Facades \ {f} : FacadeState(g)' = FacadeState(g)]_vars

\* Two facades with different credentials and configurations, one of them
\* closed and the other still open.
C7_Witness ==
    /\ status["api1"] = "ready"
    /\ status["api2"] = "ready"
    /\ access_token("api1") # access_token("api2")
    /\ base_url("api1") # base_url("api2")
    /\ sessions[_session["api1"]].closed
    /\ ~sessions[_session["api2"]].closed
    /\ scope["api2"] = "inside"

(***************************************************************************)
(* C10: __aenter__ returns the facade itself and creates, replaces or      *)
(* reopens no Session; a closed Session stays closed in every later state, *)
(* also when the scope is entered again; and every scope exit calls close  *)
(* on the same Session once more.                                          *)
(***************************************************************************)
C10_EnterChangesNothing ==
    [][\A f \in Facades :
        /\ (scope[f] = "outside" /\ scope'[f] = "inside") =>
               /\ entered'[f] = f
               /\ <<status, _session, sessions, wrappers>>' =
                      <<status, _session, sessions, wrappers>>
        /\ (_session[f] # 0 /\ sessions[_session[f]].closed) =>
               /\ _session'[f] = _session[f]
               /\ sessions'[_session[f]].closed
        /\ (scope[f] = "inside" /\ scope'[f] = "outside") =>
               /\ _session'[f] = _session[f]
               /\ sessions'[_session[f]].closeCalls =
                      sessions[_session[f]].closeCalls + 1
               /\ Len(sessions') = Len(sessions)]_vars

\* A facade taken through two scopes: entered again with its session closed,
\* and close called on the same session by each exit.
C10_Witness ==
    /\ scope["api1"] = "outside"
    /\ entered["api1"] = "api1"
    /\ sessions[_session["api1"]].closed
    /\ sessions[_session["api1"]].closeCalls = 2

====
